---- MODULE Spec2Model ----
\* Conway's Game of Life on a fixed-size toroidal grid: a model of
\* src/src/universe.rs (Universe, its public and private methods) and
\* src/src/cells.rs (Cell).  The copy of Universe in src/src/lib.rs has the
\* same new, tick, get_index and live_neighbor_count.
EXTENDS Integers, Sequences, FiniteSets

VARIABLES
  bits,            \* width in bits of the unsigned word that stands for u32
  overflowChecks,  \* build profile: TRUE = arithmetic overflow panics (debug),
                   \*                FALSE = it wraps (release)
  pc,              \* "start" | "idle" | "tick" | "returned" | "panicked"
  op,              \* the method being executed or that has just returned
  args,            \* the arguments of that call
  pre,             \* history: width, height and cells when that call began
  err,             \* the panic message class once pc = "panicked"
  width,           \* Universe.width
  height,          \* Universe.height
  cells,           \* Universe.cells, a sequence of Cell values (index i is cells[i+1])
  next,            \* the local `next` of tick
  row,             \* the loop variable `row` of tick
  col,             \* the loop variable `col` of tick
  live_neighbors,  \* the last value returned by live_neighbor_count
  result,          \* the value the last accessor or render call returned
  hist             \* history: the pattern a counted run began with, the number
                   \* of ticks completed since, modulo the period counted to

vars == <<bits, overflowChecks, pc, op, args, pre, err, width, height, cells,
          next, row, col, live_neighbors, result, hist>>

-----------------------------------------------------------------------------
\* Bounds of the model.

\* Word width used for u32 in Spec and SpecCount; every dimension and index of
\* those specifications is far below 2^WordBits, as for a small grid in u32.
WordBits == 8
\* Word width used for u32 in SpecOverflow, narrow enough for products to wrap.
NarrowBits == 2
\* Largest width or height passed to new, set_width and set_height.
MaxDim == 2
\* Longest coordinate list passed to set_cells.
MaxList == 2
\* Largest width or height of the grids of SpecTick.
MaxGrid == 3
\* Largest number of Alive cells in the patterns of those grids.
MaxAlive == 3
\* Largest width or height of the grids of SpecCount.
MaxCountGrid == 4
\* Largest number of Alive cells in the patterns of those grids.
MaxCountAlive == 2
\* Largest side of the grids that hold one 2 x 2 block (the smallest is 4).
MaxBlockGrid == 5
\* Side of the square grid the glider runs on.
GliderGrid == 8
\* Largest row and column of the box corner of a glider whose run is followed
\* for ever.
MaxGliderStart == 1
\* Largest width and height given to new when only new is called.
MaxNewDim == 10

-----------------------------------------------------------------------------
\* Cell (src/src/cells.rs).

Dead == 0
Alive == 1
Cell == {Dead, Alive}

-----------------------------------------------------------------------------
\* u32 arithmetic.

Modulus == 2 ^ bits

\* The value a release build keeps of a mathematical result x >= 0.
Wrap(x) == x % Modulus

\* x does not fit the word: a debug build panics, a release build wraps.
Overflows(x) == x >= Modulus

\* The (row, col) pairs handed to set_cells, one beyond the largest dimension
\* included.
Coord == (0 .. MaxDim) \X (0 .. MaxDim)

RECURSIVE SeqsUpTo(_, _)
SeqsUpTo(S, n) ==
  IF n = 0 THEN {<<>>}
  ELSE LET shorter == SeqsUpTo(S, n - 1)
       IN  shorter \cup {Append(s, x) : s \in {t \in shorter : Len(t) = n - 1}, x \in S}

CoordLists == SeqsUpTo(Coord, MaxList)

NoSnapshot == [width |-> 0, height |-> 0, cells |-> <<>>]
NoResult == <<>>
\* No run is being counted.
NoHistory == [period |-> 0, ticks |-> 0, first |-> <<>>]
Snapshot == [width |-> width, height |-> height, cells |-> cells]

-----------------------------------------------------------------------------
\* Private methods of Universe.

\* get_index with row and column exchanged: a column-major layout.
get_index_transposed(w, r, c) == Wrap(c * w + r)

\* get_index on a universe of width w: (row * self.width + column) as usize,
\* as a release build computes it.
get_index(w, r, c) == Wrap(r * w + c)

\* get_index in a debug build panics when the product or the sum overflows.
get_index_overflows(w, r, c) == overflowChecks /\ Overflows(r * w + c)

\* The delta arrays with the dimension itself in place of dimension - 1: the
\* first delta then leads back to the cell's own row or column.
DeltasOffByOne(d) == <<Wrap(d), 0, 1>>

\* [self.height - 1, 0, 1] and [self.width - 1, 0, 1]; d - 1 wraps when d = 0.
Deltas(d) == <<Wrap(d + Modulus - 1), 0, 1>>

\* cs[idx + 1] when row r and column c lie on the grid, and 0 otherwise.
CellOrZero(cs, w, h, r, c) ==
  IF r >= 0 /\ r < h /\ c >= 0 /\ c < w THEN cs[r * w + c + 1] ELSE 0

\* The count of live neighbours without the wrap at the edges: a neighbour
\* beyond an edge counts as Dead.
live_neighbor_count_clipped(cs, w, h, r, c) ==
  [count |-> CellOrZero(cs, w, h, r - 1, c - 1) + CellOrZero(cs, w, h, r - 1, c)
             + CellOrZero(cs, w, h, r - 1, c + 1) + CellOrZero(cs, w, h, r, c - 1)
             + CellOrZero(cs, w, h, r, c + 1) + CellOrZero(cs, w, h, r + 1, c - 1)
             + CellOrZero(cs, w, h, r + 1, c) + CellOrZero(cs, w, h, r + 1, c + 1),
   err |-> "none"]

\* The nine iterations of the two nested loops of live_neighbor_count, k = 1..9
\* in the order the code runs them, with the count so far.  The result is the
\* count and the class of the panic that ended the loop, if any.
RECURSIVE live_neighbor_loop(_, _, _, _, _, _, _)
live_neighbor_loop(cs, w, h, r, c, k, count) ==
  IF k > 9 THEN [count |-> count, err |-> "none"]
  ELSE
    LET delta_row == Deltas(h)[((k - 1) \div 3) + 1]
        delta_col == Deltas(w)[((k - 1) % 3) + 1]
    IN
    IF delta_row = 0 /\ delta_col = 0
      THEN live_neighbor_loop(cs, w, h, r, c, k + 1, count)
    ELSE IF overflowChecks /\ Overflows(r + delta_row)
      THEN [count |-> count, err |-> "overflow"]
    ELSE IF h = 0
      THEN [count |-> count, err |-> "remainder by zero"]
    ELSE IF overflowChecks /\ Overflows(c + delta_col)
      THEN [count |-> count, err |-> "overflow"]
    ELSE IF w = 0
      THEN [count |-> count, err |-> "remainder by zero"]
    ELSE
      LET neighbor_row == Wrap(r + delta_row) % h
          neighbor_col == Wrap(c + delta_col) % w
          idx == get_index(w, neighbor_row, neighbor_col)
      IN
      IF get_index_overflows(w, neighbor_row, neighbor_col)
        THEN [count |-> count, err |-> "overflow"]
      ELSE IF idx >= Len(cs)
        THEN [count |-> count, err |-> "index out of bounds"]
      ELSE live_neighbor_loop(cs, w, h, r, c, k + 1, count + cs[idx + 1])

\* live_neighbor_count(row, column) on a universe of width w, height h and
\* cells cs.  self.height - 1 and self.width - 1 are evaluated before the first
\* iteration that uses them: a debug build panics there on a zero dimension.
live_neighbor_count(cs, w, h, r, c) ==
  IF overflowChecks /\ (h = 0 \/ w = 0)
    THEN [count |-> 0, err |-> "overflow"]
    ELSE live_neighbor_loop(cs, w, h, r, c, 1, 0)

\* The match of tick with the arm for a dead cell taken at two neighbours too.
next_cell_born_at_two(cell, x) ==
  IF cell = Alive /\ x < 2 THEN Dead
  ELSE IF cell = Alive /\ (x = 2 \/ x = 3) THEN Alive
  ELSE IF cell = Alive /\ x > 3 THEN Dead
  ELSE IF cell = Dead /\ (x = 2 \/ x = 3) THEN Alive
  ELSE cell

\* The match of tick with a last arm that yields Alive instead of the cell.
next_cell_otherwise_alive(cell, x) ==
  IF cell = Alive /\ x < 2 THEN Dead
  ELSE IF cell = Alive /\ (x = 2 \/ x = 3) THEN Alive
  ELSE IF cell = Alive /\ x > 3 THEN Dead
  ELSE IF cell = Dead /\ x = 3 THEN Alive
  ELSE Alive

\* The match of tick with the overpopulation arm taken from three neighbours on.
next_cell_dies_at_three(cell, x) ==
  IF cell = Alive /\ x < 2 THEN Dead
  ELSE IF cell = Alive /\ x = 2 THEN Alive
  ELSE IF cell = Alive /\ x > 2 THEN Dead
  ELSE IF cell = Dead /\ x = 3 THEN Alive
  ELSE cell

\* The match of tick with the survival arm taken at three neighbours only.
next_cell_lonely_at_two(cell, x) ==
  IF cell = Alive /\ x < 3 THEN Dead
  ELSE IF cell = Alive /\ x = 3 THEN Alive
  ELSE IF cell = Alive /\ x > 3 THEN Dead
  ELSE IF cell = Dead /\ x = 3 THEN Alive
  ELSE cell

\* The match of tick on (cell, live_neighbors), arm by arm.
next_cell(cell, x) ==
  IF cell = Alive /\ x < 2 THEN Dead
  ELSE IF cell = Alive /\ (x = 2 \/ x = 3) THEN Alive
  ELSE IF cell = Alive /\ x > 3 THEN Dead
  ELSE IF cell = Dead /\ x = 3 THEN Alive
  ELSE cell

\* The loop of set_cells with each named cell flipped instead of set Alive.
RECURSIVE set_cells_loop_toggle(_, _, _, _)
set_cells_loop_toggle(cs, w, list, k) ==
  IF k > Len(list) THEN [cells |-> cs, err |-> "none"]
  ELSE
    LET idx == Wrap(list[k][1] * w + list[k][2])
    IN
    IF idx >= Len(cs) THEN [cells |-> cs, err |-> "index out of bounds"]
    ELSE set_cells_loop_toggle([cs EXCEPT ![idx + 1] = 1 - cs[idx + 1]], w, list, k + 1)

\* The loop of set_cells from the k-th pair of the list on: each pair's index
\* is computed by get_index and the cell there set Alive; an index beyond the
\* buffer panics and leaves the writes made so far.
RECURSIVE set_cells_loop(_, _, _, _)
set_cells_loop(cs, w, list, k) ==
  IF k > Len(list) THEN [cells |-> cs, err |-> "none"]
  ELSE
    LET r == list[k][1]
        c == list[k][2]
        idx == get_index(w, r, c)
    IN
    IF get_index_overflows(w, r, c) THEN [cells |-> cs, err |-> "overflow"]
    ELSE IF idx >= Len(cs) THEN [cells |-> cs, err |-> "index out of bounds"]
    ELSE set_cells_loop([cs EXCEPT ![idx + 1] = Alive], w, list, k + 1)

\* The seed pattern without its second test: cell i is Alive when i % 2 == 0.
SeedCellEvenOnly(i) == IF i % 2 = 0 THEN Alive ELSE Dead

\* The seed pattern of new: cell i is Alive when i % 2 == 0 || i % 7 == 0.
SeedCell(i) == IF i % 2 = 0 \/ i % 7 = 0 THEN Alive ELSE Dead

\* A buffer of n cells filled with the seed pattern of new.
AllSeeded(n) == [i \in 1 .. n |-> SeedCell(i - 1)]

\* (0..n).map(|_i| Cell::Dead).collect()
AllDead(n) == [i \in 1 .. n |-> Dead]

-----------------------------------------------------------------------------
\* Calls and returns.

Dims == 0 .. MaxDim

\* A method panics with message class e; the fields keep what was written.
Panic(e) == pc' = "panicked" /\ err' = e

\* A method returns normally to its caller.
Returns == pc' = "returned" /\ err' = "none"

\* The caller takes the result; the record of the call is dropped.
Return ==
  /\ pc = "returned"
  /\ pc' = "idle"
  /\ op' = "none"
  /\ args' = <<>>
  /\ pre' = NoSnapshot
  /\ result' = NoResult
  /\ UNCHANGED <<hist, bits, overflowChecks, err, width, height, cells, next, row, col,
                 live_neighbors>>

\* Universe::new(w, h).
New(w, h) ==
  /\ pc = "start"
  /\ op' = "new"
  /\ args' = <<w, h>>
  /\ pre' = Snapshot
  /\ IF overflowChecks /\ Overflows(w * h)
       THEN /\ Panic("overflow")
            /\ UNCHANGED <<width, height, cells>>
       ELSE /\ Returns
            /\ width' = w
            /\ height' = h
            /\ cells' = [i \in 1 .. Wrap(w * h) |-> SeedCell(i - 1)]
  /\ UNCHANGED <<result, hist, bits, overflowChecks, next, row, col, live_neighbors>>

\* set_width that assigns the field and leaves the buffer as it was.
SetWidthKeepCells(w) ==
  /\ pc = "idle"
  /\ op' = "set_width"
  /\ args' = <<w>>
  /\ pre' = Snapshot
  /\ width' = w
  /\ Returns
  /\ UNCHANGED <<result, hist, bits, overflowChecks, height, cells, next, row, col, live_neighbors>>

\* Universe::set_width(w): the field is assigned first, then the buffer is
\* rebuilt from w * self.height.
SetWidth(w) ==
  /\ pc = "idle"
  /\ op' = "set_width"
  /\ args' = <<w>>
  /\ pre' = Snapshot
  /\ width' = w
  /\ IF overflowChecks /\ Overflows(w * height)
       THEN Panic("overflow") /\ UNCHANGED cells
       ELSE Returns /\ cells' = AllDead(Wrap(w * height))
  /\ UNCHANGED <<result, hist, bits, overflowChecks, height, next, row, col, live_neighbors>>

\* Universe::set_height(h).
SetHeight(h) ==
  /\ pc = "idle"
  /\ op' = "set_height"
  /\ args' = <<h>>
  /\ pre' = Snapshot
  /\ height' = h
  /\ IF overflowChecks /\ Overflows(width * h)
       THEN Panic("overflow") /\ UNCHANGED cells
       ELSE Returns /\ cells' = AllDead(Wrap(width * h))
  /\ UNCHANGED <<result, hist, bits, overflowChecks, width, next, row, col, live_neighbors>>

\* Universe::set_cells(list).
SetCells(list) ==
  /\ pc = "idle"
  /\ op' = "set_cells"
  /\ args' = list
  /\ pre' = Snapshot
  /\ LET done == set_cells_loop(cells, width, list, 1)
     IN  /\ cells' = done.cells
         /\ IF done.err = "none" THEN Returns ELSE Panic(done.err)
  /\ UNCHANGED <<result, hist, bits, overflowChecks, width, height, next, row, col, live_neighbors>>

-----------------------------------------------------------------------------
\* Universe::tick, one step per statement of its body.

\* let mut next = self.cells.clone(); and the loops start at (0, 0).
TickBegin ==
  /\ pc = "idle"
  /\ pc' = "tick"
  /\ op' = "tick"
  /\ args' = <<>>
  /\ pre' = Snapshot
  /\ next' = cells
  /\ row' = 0
  /\ col' = 0
  /\ UNCHANGED <<result, hist, bits, overflowChecks, err, width, height, cells, live_neighbors>>

\* The loops ending one row early: the last row keeps its cloned cells.
ScanDoneBeforeLastRow == row + 1 >= height \/ width = 0

\* The loops ending on the rows alone: a row of no column is entered.
ScanDoneRowsOnly == row >= height

\* Both loops are over: no row is left, or the rows have no column.
ScanDone == row >= height \/ width = 0

\* The loop variables after the body has run at (row, col).
AdvanceScan ==
  IF col + 1 < width
    THEN row' = row /\ col' = col + 1
    ELSE row' = row + 1 /\ col' = 0

\* The loop body with the new value written to the current buffer as well.
TickCellInPlace ==
  /\ pc = "tick"
  /\ ~ScanDone
  /\ LET idx == get_index(width, row, col)
         n == live_neighbor_count(cells, width, height, row, col)
     IN  /\ idx < Len(cells)
         /\ n.err = "none"
         /\ live_neighbors' = n.count
         /\ next' = [next EXCEPT ![idx + 1] = next_cell(cells[idx + 1], n.count)]
         /\ cells' = [cells EXCEPT ![idx + 1] = next_cell(cells[idx + 1], n.count)]
         /\ AdvanceScan
  /\ UNCHANGED <<result, hist, bits, overflowChecks, pc, op, args, pre, err, width, height>>

\* One run of the loop body, at (row, col): the cell and its neighbours are
\* read from self.cells, the new value is written to next.
TickCell ==
  /\ pc = "tick"
  /\ ~ScanDone
  /\ LET idx == get_index(width, row, col)
         n == live_neighbor_count(cells, width, height, row, col)
     IN  IF get_index_overflows(width, row, col)
           THEN Panic("overflow") /\ UNCHANGED <<next, row, col, live_neighbors>>
         ELSE IF idx >= Len(cells)
           THEN Panic("index out of bounds")
                /\ UNCHANGED <<next, row, col, live_neighbors>>
         ELSE IF n.err # "none"
           THEN Panic(n.err) /\ UNCHANGED <<next, row, col, live_neighbors>>
         ELSE /\ live_neighbors' = n.count
              /\ next' = [next EXCEPT ![idx + 1] = next_cell(cells[idx + 1], n.count)]
              /\ AdvanceScan
              /\ UNCHANGED <<pc, err>>
  /\ UNCHANGED <<result, hist, bits, overflowChecks, op, args, pre, width, height, cells>>

\* self.cells = next; and tick returns.
TickEnd ==
  /\ pc = "tick"
  /\ ScanDone
  /\ cells' = next
  /\ next' = <<>>
  /\ row' = 0
  /\ col' = 0
  /\ live_neighbors' = 0
  /\ Returns
  /\ hist' = IF hist.period = 0 THEN hist
             ELSE [hist EXCEPT !.ticks = (hist.ticks + 1) % hist.period]
  /\ UNCHANGED <<result, bits, overflowChecks, op, args, pre, width, height>>

-----------------------------------------------------------------------------
\* Universe::render (impl fmt::Display) and the accessors.

\* The characters written by fmt.
DeadGlyph == 9723
AliveGlyph == 9724
Newline == 10

\* The symbol of a cell with the two glyphs exchanged.
SymbolSwapped(cell) == IF cell = Dead THEN AliveGlyph ELSE DeadGlyph

\* let symbol = if cell == Cell::Dead { '◻' } else { '◼' };
Symbol(cell) == IF cell = Dead THEN DeadGlyph ELSE AliveGlyph

\* The loops of fmt over self.cells.chunks(w) from the i-th cell on: a glyph
\* for each cell, a newline after the last cell of each chunk; the last chunk
\* ends with the buffer.
RECURSIVE fmt_loop(_, _, _, _)
fmt_loop(cs, w, i, out) ==
  IF i > Len(cs) THEN out
  ELSE LET written == Append(out, Symbol(cs[i]))
       IN  fmt_loop(cs, w, i + 1,
             IF i % w = 0 \/ i = Len(cs) THEN Append(written, Newline) ELSE written)

\* Universe::render(): self.to_string().  chunks panics on a chunk size of 0.
Render ==
  /\ pc = "idle"
  /\ op' = "render"
  /\ args' = <<>>
  /\ pre' = Snapshot
  /\ IF width = 0
       THEN Panic("chunk size must be non-zero") /\ UNCHANGED result
       ELSE Returns /\ result' = fmt_loop(cells, width, 1, <<>>)
  /\ UNCHANGED <<hist, bits, overflowChecks, width, height, cells, next, row, col,
                 live_neighbors>>

\* An accessor named name returns value and writes nothing.
Accessor(name, value) ==
  /\ pc = "idle"
  /\ op' = name
  /\ args' = <<>>
  /\ pre' = Snapshot
  /\ Returns
  /\ result' = value
  /\ UNCHANGED <<hist, bits, overflowChecks, width, height, cells, next, row, col,
                 live_neighbors>>

\* Universe::width()
Width == Accessor("width", width)

\* height() returning the other field.
HeightReturnsWidth == Accessor("height", width)

\* Universe::height()
Height == Accessor("height", height)

\* Universe::get_cells()
GetCells == Accessor("get_cells", cells)

-----------------------------------------------------------------------------
\* Specifications.

InitFields ==
  /\ pc = "start"
  /\ op = "none"
  /\ args = <<>>
  /\ pre = NoSnapshot
  /\ err = "none"
  /\ width = 0
  /\ height = 0
  /\ cells = <<>>
  /\ next = <<>>
  /\ row = 0
  /\ col = 0
  /\ live_neighbors = 0
  /\ result = NoResult
  /\ hist = NoHistory

\* No Universe exists yet.  No product, sum or index of Spec reaches
\* 2^WordBits, so the two build profiles behave alike and one is taken.
Init ==
  /\ bits = WordBits
  /\ overflowChecks = FALSE
  /\ InitFields

Next ==
  \/ \E w \in Dims, h \in Dims : New(w, h)
  \/ \E w \in Dims : SetWidth(w)
  \/ \E h \in Dims : SetHeight(h)
  \/ pc = "idle" /\ \E list \in CoordLists : SetCells(list)
  \/ TickBegin
  \/ TickCell
  \/ TickEnd
  \/ Render
  \/ Width
  \/ Height
  \/ GetCells
  \/ Return

\* The Universe under every sequence of calls, on words wide enough for every
\* product and index of the grids it is given.
Spec == Init /\ [][Next]_vars

NextWrites ==
  \/ \E w \in Dims, h \in Dims : New(w, h)
  \/ \E w \in Dims : SetWidth(w)
  \/ \E h \in Dims : SetHeight(h)
  \/ pc = "idle" /\ \E list \in CoordLists : SetCells(list)
  \/ Return

\* The Universe under every sequence of the calls that write its buffer
\* outright: new, set_width, set_height and set_cells.
SpecWrites == Init /\ [][NextWrites]_vars

\* The same program on a word so narrow that width * height can overflow it,
\* in either build profile.
InitOverflow ==
  /\ bits = NarrowBits
  /\ overflowChecks \in BOOLEAN
  /\ InitFields

SpecOverflow == InitOverflow /\ [][Next]_vars

\* No Universe exists yet; the build is a release or a debug one.
InitBuilds ==
  /\ bits = WordBits
  /\ overflowChecks \in BOOLEAN
  /\ InitFields

\* The Universe under every sequence of calls in either build profile, on
\* words wide enough for every product and index.
SpecBuilds == InitBuilds /\ [][Next]_vars

\* live_neighbor_count(r, c) called on the universe as it stands, as tick
\* calls it for a cell of the grid.
CountNeighbors(r, c) ==
  /\ pc = "idle"
  /\ r < height
  /\ c < width
  /\ op' = "live_neighbor_count"
  /\ args' = <<r, c>>
  /\ pre' = Snapshot
  /\ LET n == live_neighbor_count(cells, width, height, r, c)
     IN  /\ live_neighbors' = n.count
         /\ IF n.err = "none" THEN Returns ELSE Panic(n.err)
  /\ UNCHANGED <<result, hist, bits, overflowChecks, width, height, cells, next, row, col>>

\* The sets of at most m indices among 1 .. n.
RECURSIVE AliveSets(_, _)
AliveSets(n, m) ==
  IF m = 0 THEN {{}}
  ELSE LET fewer == AliveSets(n, m - 1)
       IN  fewer \cup {S \cup {i} : S \in fewer, i \in 1 .. n}

\* The patterns of n cells with at most m of them Alive.
Patterns(n, m) ==
  {[i \in 1 .. n |-> IF i \in S THEN Alive ELSE Dead] : S \in AliveSets(n, m)}

\* An idle universe of width w and height h holding the pattern cs: each is
\* reached by set_width, set_height and set_cells.
InitUniverse(w, h, cs) ==
  /\ bits = WordBits
  /\ overflowChecks = FALSE
  /\ pc = "idle"
  /\ op = "none"
  /\ args = <<>>
  /\ pre = NoSnapshot
  /\ err = "none"
  /\ width = w
  /\ height = h
  /\ cells = cs
  /\ next = <<>>
  /\ row = 0
  /\ col = 0
  /\ live_neighbors = 0
  /\ result = NoResult
  /\ hist = NoHistory

InitTick ==
  \E w \in 1 .. MaxGrid, h \in 1 .. MaxGrid :
    \E cs \in Patterns(w * h, MaxAlive) : InitUniverse(w, h, cs)

NextTick ==
  \/ TickBegin
  \/ TickCell
  \/ TickEnd

\* One tick of a universe of any size from 1 x 1 to MaxGrid x MaxGrid.
SpecTick == InitTick /\ [][NextTick]_vars

\* One tick of each of the same universes, each taken together with its
\* translates, which are among them.
SpecShift == InitTick /\ [][NextTick]_vars

InitCount ==
  \E w \in 1 .. MaxCountGrid, h \in 1 .. MaxCountGrid :
    \E cs \in Patterns(w * h, MaxCountAlive) : InitUniverse(w, h, cs)

NextCount ==
  \E r \in 0 .. MaxCountGrid - 1, c \in 0 .. MaxCountGrid - 1 : CountNeighbors(r, c)

\* live_neighbor_count as a function of the universe and the position, on
\* grids from 1 x 1 to MaxCountGrid x MaxCountGrid.
SpecCount == InitCount /\ [][NextCount]_vars

\* The buffer of a w x h universe whose Alive cells are those at the
\* offsets of shape from (r, c), rows taken modulo h and columns modulo w:
\* what set_cells writes on an all-Dead universe when given these pairs.
PatternAt(shape, w, h, r, c) ==
  set_cells_loop(AllDead(w * h), w,
    [k \in 1 .. Len(shape) |-> <<(r + shape[k][1]) % h, (c + shape[k][2]) % w>>],
    1).cells

\* The 2 x 2 block, as offsets from its top left cell.
Block == <<(<<0, 0>>), (<<0, 1>>), (<<1, 0>>), (<<1, 1>>)>>

InitBlock ==
  \E w \in 4 .. MaxBlockGrid, h \in 4 .. MaxBlockGrid :
    \E r \in 0 .. h - 1, c \in 0 .. w - 1 :
      InitUniverse(w, h, PatternAt(Block, w, h, r, c))

NextBlock ==
  \/ TickBegin
  \/ TickCell
  \/ TickEnd
  \/ Return

\* Repeated ticks of a universe that holds one 2 x 2 block, at any position of
\* any grid from 4 x 4 to MaxBlockGrid x MaxBlockGrid.
SpecBlock == InitBlock /\ [][NextBlock]_vars

\* The glider, as offsets from the top left corner of its 3 x 3 box; it
\* travels towards growing rows and growing columns.
Glider == <<(<<0, 1>>), (<<1, 2>>), (<<2, 0>>), (<<2, 1>>), (<<2, 2>>)>>

\* The ticks a glider needs to travel once around the grid.
GliderPeriod == 4 * GliderGrid

\* An idle GliderGrid x GliderGrid universe that holds one glider with the
\* corner of its box at (r, c); hist keeps this first buffer and counts the
\* ticks made since.
GliderUniverse(r, c) ==
  /\ bits = WordBits
  /\ overflowChecks = FALSE
  /\ pc = "idle"
  /\ op = "none"
  /\ args = <<>>
  /\ pre = NoSnapshot
  /\ err = "none"
  /\ width = GliderGrid
  /\ height = GliderGrid
  /\ cells = PatternAt(Glider, GliderGrid, GliderGrid, r, c)
  /\ next = <<>>
  /\ row = 0
  /\ col = 0
  /\ live_neighbors = 0
  /\ result = NoResult
  /\ hist = [period |-> GliderPeriod, ticks |-> 0,
             first |-> PatternAt(Glider, GliderGrid, GliderGrid, r, c)]

\* The glider at any position of the grid.
InitGlider ==
  \E r \in 0 .. GliderGrid - 1, c \in 0 .. GliderGrid - 1 : GliderUniverse(r, c)

NextGlider ==
  \/ TickBegin
  \/ TickCell
  \/ TickEnd
  \/ Return

\* Repeated ticks of a universe that holds one glider.
SpecGlider == InitGlider /\ [][NextGlider]_vars

\* The glider with the corner of its box in the rows and columns
\* 0 .. MaxGliderStart.
InitGliderLive ==
  \E r \in 0 .. MaxGliderStart, c \in 0 .. MaxGliderStart : GliderUniverse(r, c)

\* Repeated ticks of such a universe, with tick called again and again and
\* each call running to its end.
SpecGliderLive == InitGliderLive /\ [][NextGlider]_vars /\ WF_vars(NextGlider)

NextNew ==
  \/ \E w \in 0 .. MaxNewDim, h \in 0 .. MaxNewDim : New(w, h)
  \/ Return

\* Universe::new with any width and height from 0 to MaxNewDim.
SpecNew == Init /\ [][NextNew]_vars

-----------------------------------------------------------------------------
\* Properties.

\* The cell at (r, c) of a row-major buffer cs of width w.
At(cs, w, r, c) == cs[r * w + c + 1]

\* A method has returned normally and its caller has not yet gone on.
Returned(name) == pc = "returned" /\ op = name

\* C1: in every state reached from new by tick, set_width, set_height and
\* set_cells calls, the length of the cell buffer is width * height.
C1_CellsLengthIsWidthTimesHeight == Len(cells) = width * height

\* C1 witness: set_width has just rebuilt a non-empty buffer of another length.
C1_Witness ==
  /\ Returned("set_width")
  /\ Len(cells) > 0
  /\ Len(cells) # Len(pre.cells)
  /\ Len(pre.cells) > 0

\* C2: after one tick of a universe with width > 0 and height > 0 a cell is
\* Alive exactly when, before the tick, it was Alive with 2 or 3 live
\* neighbours or Dead with exactly 3, the counts being those of the pre-tick
\* generation; otherwise it is Dead.
C2_TickAppliesRule ==
  (Returned("tick") /\ width > 0 /\ height > 0) =>
    \A r \in 0 .. height - 1, c \in 0 .. width - 1 :
      LET was == At(pre.cells, width, r, c)
          n == live_neighbor_count(pre.cells, width, height, r, c).count
          lives == \/ was = Alive /\ n \in {2, 3}
                   \/ was = Dead /\ n = 3
      IN  At(cells, width, r, c) = IF lives THEN Alive ELSE Dead

\* C2 witness: a tick of a 3 x 3 universe in which a Dead cell with three
\* live neighbours was born and an Alive cell with two survived.
C2_Witness ==
  /\ Returned("tick")
  /\ width = 3
  /\ height = 3
  /\ \E i \in 1 .. 9 : pre.cells[i] = Dead /\ cells[i] = Alive
  /\ \E i \in 1 .. 9 : pre.cells[i] = Alive /\ cells[i] = Alive

\* The sum of the cells at the eight offsets around (r, c), each coordinate
\* taken modulo the dimension.
EightNeighborSum(cs, w, h, r, c) ==
  LET v(dr, dc) == At(cs, w, (r + h + dr) % h, (c + w + dc) % w)
  IN  v(-1, -1) + v(-1, 0) + v(-1, 1) + v(0, -1) + v(0, 1)
        + v(1, -1) + v(1, 0) + v(1, 1)

\* C3: for width > 0, height > 0 and (row, col) in range, live_neighbor_count
\* is the sum over the eight offsets other than (0, 0) of the cell at
\* ((row + dr) mod height, (col + dc) mod width): eight terms on every grid
\* size, width = 1 and height = 1 included.
C3_CountIsEightTermSum ==
  Returned("live_neighbor_count") =>
    live_neighbors = EightNeighborSum(cells, width, height, args[1], args[2])

\* The cell is scanned before the loops reach (row, col).
Scanned(r, c) == r < row \/ (r = row /\ c < col)

\* C4: during a tick the current buffer is never written: every state of the
\* scan holds the whole pre-tick generation in cells, the new values of the
\* cells scanned so far, computed from that generation, are in next only, and
\* cells changes in the single step that ends the tick.
C4_TickDoubleBuffered ==
  /\ pc = "tick" =>
       /\ cells = pre.cells
       /\ Len(next) = Len(cells)
       /\ \A r \in 0 .. height - 1, c \in 0 .. width - 1 :
            At(next, width, r, c) =
              IF Scanned(r, c)
                THEN next_cell(At(pre.cells, width, r, c),
                       live_neighbor_count(pre.cells, width, height, r, c).count)
                ELSE At(pre.cells, width, r, c)
  /\ (op = "tick" /\ cells # pre.cells) => pc = "returned" /\ next = <<>>

\* C4 witness: the scan of a 3 x 3 universe is in its second row and has
\* already written a changed value to next.
C4_Witness ==
  /\ pc = "tick"
  /\ width = 3
  /\ height = 3
  /\ row = 1
  /\ next # cells

\* C5: after set_width(w), width is w, height is unchanged, the buffer has
\* w * height cells and all are Dead, whatever was Alive before; set_height(h)
\* likewise with the roles exchanged.
C5_ResizeResetsCells ==
  /\ Returned("set_width") =>
       /\ width = args[1]
       /\ height = pre.height
       /\ Len(cells) = args[1] * pre.height
       /\ \A i \in 1 .. Len(cells) : cells[i] = Dead
  /\ Returned("set_height") =>
       /\ height = args[1]
       /\ width = pre.width
       /\ Len(cells) = pre.width * args[1]
       /\ \A i \in 1 .. Len(cells) : cells[i] = Dead

\* C5 witness: set_height has returned a non-empty grid after a universe that
\* held Alive cells.
C5_Witness ==
  /\ Returned("set_height")
  /\ Len(cells) > 1
  /\ \E i \in 1 .. Len(pre.cells) : pre.cells[i] = Alive

\* Every pair of the list names a cell of a w x h grid.
InRange(list, w, h) == \A k \in 1 .. Len(list) : list[k][1] < h /\ list[k][2] < w

\* Index i of a buffer of width w is the cell one pair of the list names.
Addressed(list, w, i) == \E k \in 1 .. Len(list) : list[k][1] * w + list[k][2] + 1 = i

\* set_cells has run to its end or to a panic.
SetCellsOver == op = "set_cells" /\ pc \in {"returned", "panicked"}

\* C6: after set_cells(list) with every pair in range (row < height and
\* col < width), each listed cell row * width + col is Alive, every other cell
\* is as before the call, and width, height and the buffer length are
\* unchanged.
C6_SetCellsSetsListedCellsOnly ==
  (SetCellsOver /\ InRange(args, pre.width, pre.height)) =>
    /\ pc = "returned"
    /\ width = pre.width
    /\ height = pre.height
    /\ Len(cells) = Len(pre.cells)
    /\ \A i \in 1 .. Len(cells) :
         cells[i] = IF Addressed(args, width, i) THEN Alive ELSE pre.cells[i]

\* C6 witness: set_cells has returned from a list of two different in-range
\* pairs of a 2 x 2 grid, one of them off the diagonal and newly set, with an
\* Alive and a Dead cell left as they were.
C6_Witness ==
  /\ Returned("set_cells")
  /\ width = 2
  /\ height = 2
  /\ Len(args) = 2
  /\ args[1] # args[2]
  /\ args[2][1] # args[2][2]
  /\ InRange(args, width, height)
  /\ At(pre.cells, width, args[2][1], args[2][2]) = Dead
  /\ \E i \in 1 .. Len(cells) : ~Addressed(args, width, i) /\ cells[i] = Alive
  /\ \E i \in 1 .. Len(cells) : ~Addressed(args, width, i) /\ cells[i] = Dead

\* C7: a set_cells call whose list has a pair with row >= height or
\* col >= width fails with an index-out-of-range error, and no cell is written
\* on behalf of such a pair: a cell that changed is named by an in-range pair.
C7_OutOfRangePairIsRejected ==
  (SetCellsOver /\ ~InRange(args, pre.width, pre.height)) =>
    /\ pc = "panicked"
    /\ err = "index out of bounds"
    /\ \A i \in 1 .. Len(cells) :
         cells[i] # pre.cells[i] =>
           \E k \in 1 .. Len(args) :
             /\ args[k][1] < height
             /\ args[k][2] < width
             /\ args[k][1] * width + args[k][2] + 1 = i

\* C8: zero dimensions are rejected or clamped to 1, so width >= 1 and
\* height >= 1 in every state of a constructed Universe.
C8_DimensionsArePositive ==
  pc \in {"idle", "tick", "returned"} => width >= 1 /\ height >= 1

\* C9: when width * height does not fit the word, new, set_width and
\* set_height reject the call: none of them returns a universe whose width and
\* height are the requested ones and whose buffer has the truncated length.
C9_OverflowIsRejected ==
  (pc = "returned" /\ op \in {"new", "set_width", "set_height"}) =>
    ~Overflows(width * height)

\* C10: on a grid with width >= 3 and height >= 3 whose only Alive cell is
\* (r, c), live_neighbor_count is 1 at the eight cells one step from (r, c) in
\* row and column modulo the dimensions, wrapped ones included, and 0 at
\* (r, c) and at every other cell.
C10_SingleCellNeighbors ==
  (Returned("live_neighbor_count") /\ width >= 3 /\ height >= 3) =>
    \A r \in 0 .. height - 1, c \in 0 .. width - 1 :
      (\A i \in 1 .. Len(cells) : cells[i] = Alive <=> i = r * width + c + 1) =>
        LET dr == (args[1] + height - r) % height
            dc == (args[2] + width - c) % width
            adjacent == /\ dr \in {0, 1, height - 1}
                        /\ dc \in {0, 1, width - 1}
                        /\ <<dr, dc>> # <<0, 0>>
        IN  live_neighbors = IF adjacent THEN 1 ELSE 0

\* C10 witness: the count is 1 at the far corner (3, 3) of a 4 x 4 grid whose
\* only Alive cell is (0, 0), reached by wrapping both ways.
C10_Witness ==
  /\ Returned("live_neighbor_count")
  /\ width = 4
  /\ height = 4
  /\ cells[1] = Alive
  /\ \A i \in 2 .. 16 : cells[i] = Dead
  /\ args = <<3, 3>>
  /\ live_neighbors = 1

\* Every cell of the buffer is Dead.
AllCellsDead(cs) == \A i \in 1 .. Len(cs) : cs[i] = Dead

\* C11: tick of an all-Dead universe yields an all-Dead universe: once every
\* cell of a constructed universe is Dead, every cell is Dead after each
\* further step of any call but set_cells.
C11_AllDeadStaysDead ==
  [][(pc # "start" /\ AllCellsDead(cells) /\ op' # "set_cells")
       => AllCellsDead(cells')]_vars

\* C11 witness: tick has returned from a 2 x 2 universe that was all Dead.
C11_Witness ==
  /\ Returned("tick")
  /\ width = 2
  /\ height = 2
  /\ Len(cells) = 4
  /\ AllCellsDead(pre.cells)
  /\ AllCellsDead(cells)

\* The position the loop body of tick ran at last, when it has run.
ScanStarted == pc = "tick" /\ (row > 0 \/ col > 0)
LastRow == IF col > 0 THEN row ELSE row - 1
LastCol == IF col > 0 THEN col - 1 ELSE width - 1

\* C12: a 2 x 2 block on a grid of at least 4 x 4, wrapped blocks included,
\* is unchanged by tick: the count computed for each block cell is 3, the
\* count computed for each Dead cell is not 3.
C12_BlockIsStillLife ==
  /\ Returned("tick") => cells = pre.cells
  /\ ScanStarted =>
       IF At(cells, width, LastRow, LastCol) = Alive
         THEN live_neighbors = 3
         ELSE live_neighbors # 3

\* C12 witness: tick has returned on a 4 x 5 grid whose block lies on the
\* four corners, across both wrapped edges.
C12_Witness ==
  /\ Returned("tick")
  /\ width = 4
  /\ height = 5
  /\ {i \in 1 .. Len(cells) : cells[i] = Alive} = {1, 4, 17, 20}
  /\ cells = pre.cells

\* The buffer cs of a w x h universe with every cell moved a rows down and b
\* columns right, rows taken modulo h and columns modulo w.
Translate(cs, w, h, a, b) ==
  [i \in 1 .. Len(cs) |->
     At(cs, w, (((i - 1) \div w) + h - (a % h)) % h,
               (((i - 1) % w) + w - (b % w)) % w)]

\* C13: four ticks after a glider was placed anywhere on the 8 x 8 grid, the
\* Alive cells are exactly the first ones moved one row down and one column
\* right, modulo the side of the grid.
C13_GliderMovesDiagonally ==
  (pc \in {"idle", "returned"} /\ hist.ticks = 4)
    => cells = Translate(hist.first, width, height, 1, 1)

\* C13 witness: the fourth tick has returned for a glider whose first box
\* had its corner in the last row and the last column, across both edges.
C13_Witness ==
  /\ Returned("tick")
  /\ hist.ticks = 4
  /\ hist.first = PatternAt(Glider, GliderGrid, GliderGrid,
                            GliderGrid - 1, GliderGrid - 1)
  /\ cells = PatternAt(Glider, GliderGrid, GliderGrid, 0, 0)

\* The glider lies across the edge between the last row and the first one.
AcrossRowEdge ==
  /\ \E c \in 0 .. width - 1 : At(cells, width, 0, c) = Alive
  /\ \E c \in 0 .. width - 1 : At(cells, width, height - 1, c) = Alive

\* C14: a lone glider on the 8 x 8 torus runs forever: the universe is never
\* all Dead, after every 32 ticks it is in its first configuration again,
\* which happens infinitely often, and again and again the glider lies across
\* the edge between the last row and the first.
C14_GliderRunsForever ==
  /\ [](~AllCellsDead(cells))
  /\ []((pc \in {"idle", "returned"} /\ hist.ticks = 0) => cells = hist.first)
  /\ []<>(Returned("tick") /\ hist.ticks = 0 /\ cells = hist.first)
  /\ []<>AcrossRowEdge

\* C14 witness: the 32nd tick has returned for a glider that started away
\* from the edges, and the first configuration is back.
C14_Witness ==
  /\ Returned("tick")
  /\ hist.ticks = 0
  /\ hist.period = 32
  /\ hist.first = PatternAt(Glider, GliderGrid, GliderGrid, 1, 1)
  /\ cells = hist.first

\* The glyph the text shows for a cell.
GlyphOf(cell) == IF cell = Alive THEN AliveGlyph ELSE DeadGlyph

\* C15: render returns height lines of width glyphs and a newline each, the
\* last line included, the glyph at line r, position c being that of cell
\* r * width + c; it leaves width, height and cells as they were; the text of
\* a 2 x 2 all-Dead grid is two lines of two Dead glyphs.
C15_RenderWritesGrid ==
  Returned("render") =>
    /\ width = pre.width
    /\ height = pre.height
    /\ cells = pre.cells
    /\ (width > 0 /\ height > 0) =>
         /\ Len(result) = height * (width + 1)
         /\ \A r \in 0 .. height - 1 :
              /\ \A c \in 0 .. width - 1 :
                   result[r * (width + 1) + c + 1] = GlyphOf(At(cells, width, r, c))
              /\ result[r * (width + 1) + width + 1] = Newline
    /\ (width = 2 /\ height = 2 /\ AllCellsDead(cells)) =>
         result = <<DeadGlyph, DeadGlyph, Newline, DeadGlyph, DeadGlyph, Newline>>

\* C15 witness: render has returned the text of a 2 x 2 grid that holds both
\* Alive and Dead cells.
C15_Witness ==
  /\ Returned("render")
  /\ width = 2
  /\ height = 2
  /\ cells = <<Alive, Dead, Dead, Alive>>
  /\ Len(result) = 6

\* C16: new(w, h) returns a universe of width w and height h whose cell i,
\* for each i in 0 .. w * h - 1, is Alive exactly when i is divisible by 2 or
\* by 7: the universe is a function of the two arguments alone.
C16_NewIsSeededByIndex ==
  Returned("new") =>
    /\ width = args[1]
    /\ height = args[2]
    /\ Len(cells) = width * height
    /\ \A i \in 0 .. width * height - 1 :
         cells[i + 1] = Alive <=> (i % 2 = 0 \/ i % 7 = 0)

\* C16 witness: new(3, 5) has returned; cell 7 is Alive and cell 9 is Dead.
C16_Witness ==
  /\ Returned("new")
  /\ args = <<3, 5>>
  /\ Len(cells) = 15
  /\ cells[8] = Alive
  /\ cells[10] = Dead

\* The calls that take no dimension.
KeepsDimensions == {"tick", "set_cells", "render", "get_cells", "width", "height"}

\* C17: width() and height() return the fields; the fields hold the values
\* given to new until set_width or set_height returns, which sets its own
\* field to its argument and leaves the other; tick, set_cells, render,
\* get_cells, width and height change neither, at any point of their run.
C17_DimensionsFollowSetters ==
  /\ Returned("new") => (width = args[1] /\ height = args[2])
  /\ Returned("set_width") => (width = args[1] /\ height = pre.height)
  /\ Returned("set_height") => (height = args[1] /\ width = pre.width)
  /\ op \in KeepsDimensions => (width = pre.width /\ height = pre.height)
  /\ Returned("width") => result = width
  /\ Returned("height") => result = height

\* C17 witness: height() has returned 1 on a universe of width 2 whose two
\* cells are Dead, that is after a set_width or set_height call.
C17_Witness ==
  /\ Returned("height")
  /\ result = 1
  /\ width = 2
  /\ height = 1
  /\ cells = <<Dead, Dead>>

\* The buffer tick leaves for a w x h universe holding cs: for each cell the
\* match of tick on the cell and on its count of live neighbours in cs.
TickOf(cs, w, h) ==
  [i \in 1 .. Len(cs) |->
     next_cell(cs[i], live_neighbor_count(cs, w, h, (i - 1) \div w, (i - 1) % w).count)]

\* C18: tick commutes with translation on the torus: for every shift (a, b),
\* the tick of the translated universe is the translated result of tick.
C18_TickCommutesWithTranslation ==
  (Returned("tick") /\ width > 0 /\ height > 0) =>
    \A a \in 0 .. height - 1, b \in 0 .. width - 1 :
      TickOf(Translate(pre.cells, width, height, a, b), width, height)
        = Translate(cells, width, height, a, b)

\* C18 witness: tick has returned on a 3 x 3 universe that held three cells
\* in its first column (a vertical line on the left edge) and has changed it.
C18_Witness ==
  /\ Returned("tick")
  /\ width = 3
  /\ height = 3
  /\ pre.cells = <<Alive, Dead, Dead, Alive, Dead, Dead, Alive, Dead, Dead>>
  /\ cells # pre.cells

\* The buffer set_cells(list) leaves on a universe of width w holding cs.
AfterSetCells(cs, w, list) == set_cells_loop(cs, w, list, 1).cells

\* The list without its i-th item.
Without(list, i) == SubSeq(list, 1, i - 1) \o SubSeq(list, i + 1, Len(list))

\* The reorderings of a list.
RECURSIVE Orders(_)
Orders(list) ==
  IF Len(list) = 0 THEN {<<>>}
  ELSE UNION {{<<list[i]>> \o rest : rest \in Orders(Without(list, i))} :
                i \in 1 .. Len(list)}

\* C19: for a list of in-range pairs, set_cells turns no Alive cell Dead; a
\* second call with the same list changes nothing; and for every way to cut
\* the list into A followed by B, calling with A then B, with B then A, with
\* any reordering of the whole list and with the list given twice all leave
\* the buffer the one call left.
C19_SetCellsMonotoneIdempotentUnordered ==
  (Returned("set_cells") /\ InRange(args, pre.width, pre.height)) =>
    /\ \A i \in 1 .. Len(pre.cells) : pre.cells[i] = Alive => cells[i] = Alive
    /\ AfterSetCells(cells, width, args) = cells
    /\ AfterSetCells(pre.cells, width, args \o args) = cells
    /\ \A k \in 0 .. Len(args) :
         LET A == SubSeq(args, 1, k)
             B == SubSeq(args, k + 1, Len(args))
         IN  /\ AfterSetCells(AfterSetCells(pre.cells, width, A), width, B) = cells
             /\ AfterSetCells(AfterSetCells(pre.cells, width, B), width, A) = cells
    /\ \A reordered \in Orders(args) :
         AfterSetCells(pre.cells, width, reordered) = cells

\* C19 witness: set_cells has returned on a 2 x 2 grid from a list of two
\* different in-range pairs, the first naming a cell that was Alive already
\* and the second a cell that was Dead.
C19_Witness ==
  /\ Returned("set_cells")
  /\ width = 2
  /\ height = 2
  /\ Len(args) = 2
  /\ InRange(args, width, height)
  /\ args[1] # args[2]
  /\ At(pre.cells, width, args[1][1], args[1][2]) = Alive
  /\ At(pre.cells, width, args[2][1], args[2][2]) = Dead
  /\ At(cells, width, args[2][1], args[2][2]) = Alive

\* C20: tick never fails, zero dimensions included: no tick ends in a panic,
\* and whenever the loop body is about to run both dimensions are positive,
\* the index of the cell is below the buffer length and the count of its
\* neighbours runs to its end with no out-of-range index, no remainder by
\* zero and no overflow of height - 1, width - 1 or a sum.
C20_TickNeverFails ==
  /\ ~(op = "tick" /\ pc = "panicked")
  /\ (pc = "tick" /\ ~ScanDone) =>
       /\ width > 0
       /\ height > 0
       /\ ~get_index_overflows(width, row, col)
       /\ get_index(width, row, col) < Len(cells)
       /\ live_neighbor_count(cells, width, height, row, col).err = "none"

\* C20 witness: in a debug build, tick has returned on a universe of width 0
\* and height 2.
C20_Witness ==
  /\ Returned("tick")
  /\ overflowChecks
  /\ width = 0
  /\ height = 2

====
